---- MODULE Spec2Model ----
(***************************************************************************)
(* A model of the asynchronous LM75 / PCT2075 driver (src/src/asynch.rs). *)
(*                                                                         *)
(* State: the driver instance (its variant, its in-memory configuration    *)
(* mirror), the call in progress and the call before it.  Every driver    *)
(* method is one action up to its bus transaction; the transaction then   *)
(* completes (I2cOk), fails (I2cError) or the future is dropped while it   *)
(* is awaited (Cancel).                                                    *)
(*                                                                         *)
(* Temperatures are integers counting eighths of a degree Celsius (0.125   *)
(* is the finest step either variant resolves), so -55.0 is -440 and      *)
(* 0.5 is 4.  Periods are milliseconds.  Bytes are 0..255.                *)
(***************************************************************************)
EXTENDS Integers, Sequences, FiniteSets, TLC

VARIABLES ic, config, pc, call, last, written

vars == <<ic, config, pc, call, last, written>>

(***************************************************************************)
(* Widths and bounds                                                       *)
(***************************************************************************)
\* u8 / u16 maxima: the widths of a register byte and of `period: u16`.
U8Max == 255
U16Max == 65535

\* How many eighths of a degree beyond [-55.0, 125.0] the exhaustive
\* temperature inputs of SpecTemp extend on each side.
EighthsBeyond == 16

Bytes == 0..U8Max

(***************************************************************************)
(* Register map and configuration bit flags                                *)
(***************************************************************************)
TEMPERATURE == 0
CONFIGURATION == 1
T_HYST == 2
T_OS == 3
T_IDLE == 4

SHUTDOWN == 1
COMP_INT == 2
OS_POLARITY == 4
FAULT_QUEUE0 == 8
FAULT_QUEUE1 == 16

\* Config::default()
DefaultConfig == 0

FaultQueues == {1, 2, 4, 6}
OsPolarities == {"ActiveLow", "ActiveHigh"}
OsModes == {"Comparator", "Interrupt"}

(***************************************************************************)
(* Bit arithmetic on bytes                                                 *)
(***************************************************************************)
RECURSIVE BitAnd(_, _)
BitAnd(a, b) ==
    IF a = 0 \/ b = 0 THEN 0
    ELSE (a % 2) * (b % 2) + 2 * BitAnd(a \div 2, b \div 2)

BitOr(a, b) == a + b - BitAnd(a, b)

BitNot8(a) == U8Max - a

\* bit n of byte b
Bit(b, n) == (b \div (2 ^ n)) % 2

\* Config::with_high / Config::with_low: force the masked bits on / off
with_high(c, mask) == BitOr(c, mask)
with_low(c, mask) == BitAnd(c, BitNot8(mask))

\* u8 as i8
AsI8(b) == IF b >= 128 THEN b - 256 ELSE b

(***************************************************************************)
(* Variant resolution masks (ResolutionSupport::get_resolution_mask)       *)
(***************************************************************************)
get_resolution_mask(variant) == IF variant = "Lm75" THEN 128 ELSE 224

(***************************************************************************)
(* conversion::*                                                           *)
(***************************************************************************)
\* Celsius (in eighths) -> (msb, lsb): integer part as a two's-complement
\* byte, the non-negative fraction left-justified and resolution-masked.
convert_temp_to_register(t, mask) ==
    <<(t \div 8) % 256, BitAnd((t % 8) * 32, mask)>>

\* (msb, lsb) -> Celsius (in eighths): signed msb plus the masked fraction.
convert_temp_from_register(msb, lsb, mask) ==
    AsI8(msb) * 8 + BitAnd(lsb, mask) \div 32

\* period in ms -> register byte: the count of 100 ms steps
convert_sample_rate_to_register(period) == (period \div 100) % 256

\* register byte -> period in ms
convert_sample_rate_from_register(byte) == byte * 100

(***************************************************************************)
(* What each driver method computes before / after its bus transaction     *)
(***************************************************************************)
\* mutant of EnableConfig: the flag is set instead of cleared
EnableConfigSets(c) == with_high(c, SHUTDOWN)

\* enable / disable
EnableConfig(c) == with_low(c, SHUTDOWN)
DisableConfig(c) == with_high(c, SHUTDOWN)

\* mutant of FaultQueueConfig: the patterns of depths 2 and 4 exchanged
FaultQueueConfigSwapped(c, fq) ==
    CASE fq = 1 -> with_low(with_low(c, FAULT_QUEUE1), FAULT_QUEUE0)
      [] fq = 2 -> with_low(with_high(c, FAULT_QUEUE1), FAULT_QUEUE0)
      [] fq = 4 -> with_high(with_low(c, FAULT_QUEUE1), FAULT_QUEUE0)
      [] fq = 6 -> with_high(with_high(c, FAULT_QUEUE1), FAULT_QUEUE0)

\* set_fault_queue: the match on FaultQueue
FaultQueueConfig(c, fq) ==
    CASE fq = 1 -> with_low(with_low(c, FAULT_QUEUE1), FAULT_QUEUE0)
      [] fq = 2 -> with_high(with_low(c, FAULT_QUEUE1), FAULT_QUEUE0)
      [] fq = 4 -> with_low(with_high(c, FAULT_QUEUE1), FAULT_QUEUE0)
      [] fq = 6 -> with_high(with_high(c, FAULT_QUEUE1), FAULT_QUEUE0)

\* set_os_polarity: the match on OsPolarity
OsPolarityConfig(c, polarity) ==
    IF polarity = "ActiveLow" THEN with_low(c, OS_POLARITY)
    ELSE with_high(c, OS_POLARITY)

\* set_os_mode: the match on OsMode
OsModeConfig(c, mode) ==
    IF mode = "Comparator" THEN with_low(c, COMP_INT)
    ELSE with_high(c, COMP_INT)

\* write_config: the bytes put on the bus
ConfigFrame(c) == <<CONFIGURATION, c>>

\* mutant of MirrorAt: the mirror is stored before the write is awaited
MirrorAtEager(stage, old, new) == new

\* write_config: the mirror while the write is awaited ("issued"), and once
\* the transport has answered ("ok" / "i2c").  `self.config = config` runs
\* only after `.await.map_err(Error::I2C)?` did not return early.
MirrorAt(stage, old, new) == IF stage = "ok" THEN new ELSE old

\* mutant of TemperatureRejected: the bounds themselves are refused
TemperatureRejectedAtBounds(t) == t <= -55 * 8 \/ t >= 125 * 8

\* set_os_temperature / set_hysteresis_temperature: the range check
TemperatureRejected(t) == t < -55 * 8 \/ t > 125 * 8

\* mutant of TemperatureFrame: the two data bytes in the wrong order
TemperatureFrameSwapped(reg, t, mask) ==
    LET r == convert_temp_to_register(t, mask)
    IN  <<reg, r[2], r[1]>>

\* set_os_temperature / set_hysteresis_temperature: the bytes put on the bus
TemperatureFrame(reg, t, mask) ==
    LET r == convert_temp_to_register(t, mask)
    IN  <<reg, r[1], r[2]>>

\* mutant of TemperatureResult: the buffer's bytes passed in the wrong order
TemperatureResultSwapped(data, mask) ==
    convert_temp_from_register(data[2], data[1], mask)

\* read_temperature: the value returned for the two bytes read
TemperatureResult(data, mask) ==
    convert_temp_from_register(data[1], data[2], mask)

\* set_sample_rate: the validity check
SampleRateRejected(period) == period > 3100 \/ period % 100 # 0

\* mutant of SampleRateFrame: the period written without conversion
SampleRateFrameRaw(period) == <<T_IDLE, period % 256>>

\* set_sample_rate: the bytes put on the bus
SampleRateFrame(period) == <<T_IDLE, convert_sample_rate_to_register(period)>>

\* mutant of SampleRateResult: the byte returned without conversion
SampleRateResultRaw(data) == data[1]

\* read_sample_rate: the value returned for the byte read
SampleRateResult(data) == convert_sample_rate_from_register(data[1])

(***************************************************************************)
(* Calls                                                                   *)
(***************************************************************************)
ConfigOps ==
    {"enable", "disable", "set_fault_queue", "set_os_polarity", "set_os_mode"}

\* a bus transaction: write(address, bytes), or
\* write_read(address, bytes, buffer of rlen bytes)
Write(bytes) == [kind |-> "write", bytes |-> bytes, rlen |-> 0]
WriteRead(bytes, n) == [kind |-> "write_read", bytes |-> bytes, rlen |-> n]

NoCall ==
    [op |-> "new", arg |-> 0, before |-> DefaultConfig, bus |-> <<>>,
     pending |-> DefaultConfig, outcome |-> "none", data |-> <<>>,
     ret |-> <<>>]

NoLast ==
    [op |-> "none", before |-> DefaultConfig, after |-> DefaultConfig,
     outcome |-> "none"]

\* what is remembered of the call that came before the current one: a
\* successful enable or disable with the mirror before and after it; any
\* other call is remembered only as "other"
Summary(c, cfg) ==
    IF c.op \in {"enable", "disable"} /\ c.outcome = "ok"
    THEN [op |-> c.op, before |-> c.before, after |-> cfg, outcome |-> "ok"]
    ELSE [op |-> "other", before |-> cfg, after |-> cfg, outcome |-> "none"]

\* Lm75::new / Lm75::new_pct2075
Init ==
    /\ ic \in {"Lm75", "Pct2075"}
    /\ config = DefaultConfig
    /\ pc = "idle"
    /\ call = NoCall
    /\ last = NoLast
    /\ written = DefaultConfig

\* a method reaches its bus transaction and awaits it
Begin(op, arg, tx, pending) ==
    /\ pc = "idle"
    /\ pc' = "await"
    /\ last' = Summary(call, config)
    /\ call' = [op |-> op, arg |-> arg, before |-> config, bus |-> <<tx>>,
                pending |-> pending, outcome |-> "pending", data |-> <<>>,
                ret |-> <<>>]
    /\ config' = IF op \in ConfigOps THEN MirrorAt("issued", config, pending)
                 ELSE config
    /\ UNCHANGED <<ic, written>>

\* a method returns Err(Error::InvalidInputData) before any transaction
Reject(op, arg) ==
    /\ pc = "idle"
    /\ last' = Summary(call, config)
    /\ call' = [op |-> op, arg |-> arg, before |-> config, bus |-> <<>>,
                pending |-> config, outcome |-> "invalid", data |-> <<>>,
                ret |-> <<>>]
    /\ UNCHANGED <<ic, config, pc, written>>

enable == Begin("enable", 0, Write(ConfigFrame(EnableConfig(config))),
                EnableConfig(config))

disable == Begin("disable", 0, Write(ConfigFrame(DisableConfig(config))),
                 DisableConfig(config))

set_fault_queue(fq) ==
    Begin("set_fault_queue", fq,
          Write(ConfigFrame(FaultQueueConfig(config, fq))),
          FaultQueueConfig(config, fq))

set_os_polarity(polarity) ==
    Begin("set_os_polarity", IF polarity = "ActiveHigh" THEN 1 ELSE 0,
          Write(ConfigFrame(OsPolarityConfig(config, polarity))),
          OsPolarityConfig(config, polarity))

set_os_mode(mode) ==
    Begin("set_os_mode", IF mode = "Interrupt" THEN 1 ELSE 0,
          Write(ConfigFrame(OsModeConfig(config, mode))),
          OsModeConfig(config, mode))

set_os_temperature(t) ==
    IF TemperatureRejected(t)
    THEN Reject("set_os_temperature", t)
    ELSE Begin("set_os_temperature", t,
               Write(TemperatureFrame(T_OS, t, get_resolution_mask(ic))),
               config)

\* mutant of set_hysteresis_temperature: the over-temperature register
\* addressed, as in the method it was copied from
set_hysteresis_temperature_T_OS(t) ==
    IF TemperatureRejected(t)
    THEN Reject("set_hysteresis_temperature", t)
    ELSE Begin("set_hysteresis_temperature", t,
               Write(TemperatureFrame(T_OS, t, get_resolution_mask(ic))),
               config)

set_hysteresis_temperature(t) ==
    IF TemperatureRejected(t)
    THEN Reject("set_hysteresis_temperature", t)
    ELSE Begin("set_hysteresis_temperature", t,
               Write(TemperatureFrame(T_HYST, t, get_resolution_mask(ic))),
               config)

read_temperature ==
    Begin("read_temperature", 0, WriteRead(<<TEMPERATURE>>, 2), config)

\* only on Lm75<_, ic::Pct2075>
set_sample_rate(period) ==
    /\ ic = "Pct2075"
    /\ IF SampleRateRejected(period)
       THEN Reject("set_sample_rate", period)
       ELSE Begin("set_sample_rate", period, Write(SampleRateFrame(period)),
                  config)

\* only on Lm75<_, ic::Pct2075>
read_sample_rate ==
    /\ ic = "Pct2075"
    /\ Begin("read_sample_rate", 0, WriteRead(<<T_IDLE>>, 1), config)

\* what the method returns once its transaction succeeded with `data` read
Returned(op, data) ==
    CASE op = "read_temperature" ->
            <<TemperatureResult(data, get_resolution_mask(ic))>>
      [] op = "read_sample_rate" -> <<SampleRateResult(data)>>
      [] OTHER -> <<>>

\* the transaction completes; `data` is what the device put in the buffer
I2cOk(data) ==
    /\ pc = "await"
    /\ Len(data) = call.bus[1].rlen
    /\ pc' = "idle"
    /\ call' = [call EXCEPT !.outcome = "ok", !.data = data,
                             !.ret = Returned(call.op, data)]
    /\ config' = IF call.op \in ConfigOps
                 THEN MirrorAt("ok", config, call.pending)
                 ELSE config
    /\ written' = IF call.op \in ConfigOps THEN call.bus[1].bytes[2]
                  ELSE written
    /\ UNCHANGED <<ic, last>>

\* the transaction fails: the method returns Err(Error::I2C(e))
I2cError ==
    /\ pc = "await"
    /\ pc' = "idle"
    /\ call' = [call EXCEPT !.outcome = "i2c"]
    /\ config' = IF call.op \in ConfigOps
                 THEN MirrorAt("i2c", config, call.pending)
                 ELSE config
    /\ UNCHANGED <<ic, last, written>>

\* the caller drops the future while the transaction is awaited: nothing
\* after the .await runs
Cancel ==
    /\ pc = "await"
    /\ pc' = "idle"
    /\ call' = [call EXCEPT !.outcome = "cancelled"]
    /\ UNCHANGED <<ic, config, last, written>>

(***************************************************************************)
(* Spec: every driver method, in any order, on representative inputs       *)
(***************************************************************************)
\* -55.5, -55.125, -55.0, -24.5, -24.375, -0.5, 0, 0.5, 0.625, 125.0,
\* 125.125, 125.5
TempInputs == {-444, -441, -440, -196, -195, -4, 0, 4, 5, 1000, 1001, 1004}

PeriodInputs == {0, 50, 100, 1234, 1500, 3100, 3200, 4000}

DeviceTemps == {<<231, 165>>, <<0, 128>>, <<201, 0>>, <<125, 0>>, <<255, 224>>}

DeviceRates == {<<0>>, <<1>>, <<15>>, <<31>>, <<255>>}

DeviceData == {<<>>} \cup DeviceRates \cup DeviceTemps

Next ==
    \/ enable
    \/ disable
    \/ \E fq \in FaultQueues : set_fault_queue(fq)
    \/ \E polarity \in OsPolarities : set_os_polarity(polarity)
    \/ \E mode \in OsModes : set_os_mode(mode)
    \/ \E t \in TempInputs : set_os_temperature(t)
    \/ \E t \in TempInputs : set_hysteresis_temperature(t)
    \/ read_temperature
    \/ \E period \in PeriodInputs : set_sample_rate(period)
    \/ read_sample_rate
    \/ \E data \in DeviceData : I2cOk(data)
    \/ I2cError
    \/ Cancel

Spec == Init /\ [][Next]_vars

(***************************************************************************)
(* SpecTemp: one temperature-threshold call on a fresh instance, for every *)
(* temperature on the 0.125 grid from below -55.0 to above 125.0           *)
(***************************************************************************)
Fresh == call.op = "new"

TempGrid == (-55 * 8 - EighthsBeyond)..(125 * 8 + EighthsBeyond)

NextTemp ==
    \/ Fresh /\ \E t \in TempGrid : set_os_temperature(t)
    \/ Fresh /\ \E t \in TempGrid : set_hysteresis_temperature(t)
    \/ I2cOk(<<>>)
    \/ I2cError
    \/ Cancel

SpecTemp == Init /\ [][NextTemp]_vars

(***************************************************************************)
(* SpecRate: one sample-rate call on a fresh PCT2075 instance, for every   *)
(* u16 period and every byte the device can return                         *)
(***************************************************************************)
NextRate ==
    \/ Fresh /\ \E period \in 0..U16Max : set_sample_rate(period)
    \/ Fresh /\ read_sample_rate
    \/ \E b \in Bytes : I2cOk(<<b>>)
    \/ I2cOk(<<>>)
    \/ I2cError
    \/ Cancel

SpecRate == Init /\ [][NextRate]_vars

(***************************************************************************)
(* Properties                                                             *)
(***************************************************************************)
IsTempSetter == call.op \in {"set_os_temperature", "set_hysteresis_temperature"}

\* the bytes of the one transaction the current call issued
Frame == call.bus[1].bytes

\* C1: the configuration mirror equals the byte of the last configuration
\* write that completed successfully (the default byte if none has), and a
\* configuration write that is still awaited, has failed with a transport
\* error or was cancelled leaves the mirror at its pre-attempt value.
C1_MirrorIsLastConfirmedWrite ==
    /\ config = written
    /\ (call.op \in ConfigOps /\ call.outcome \in {"pending", "i2c", "cancelled"})
          => config = call.before

\* C1 witness: a set_fault_queue that would have changed the mirror was
\* cancelled mid-flight, after an earlier configuration write had succeeded.
C1_Witness ==
    /\ call.op = "set_fault_queue"
    /\ call.outcome = "cancelled"
    /\ call.pending # call.before
    /\ written # DefaultConfig

\* C2 (as claimed): set_sample_rate returns InvalidInputData, issues no bus
\* transaction and leaves the mirror unchanged for every period below 100,
\* above 3100 or not a multiple of 100, and issues a write only for periods
\* in {100, 200, ..., 3100}.
C2_InvalidPeriodsRejected ==
    call.op = "set_sample_rate" =>
        /\ (call.arg < 100 \/ call.arg > 3100 \/ call.arg % 100 # 0)
              => /\ call.outcome = "invalid"
                 /\ call.bus = <<>>
                 /\ config = call.before
        /\ call.bus # <<>> => call.arg \in {100 * k : k \in 1..31}

\* C3: set_os_temperature and set_hysteresis_temperature return
\* InvalidInputData without any bus transaction for a temperature below
\* -55.0 or above 125.0, accept -55.0 and 125.0 themselves with one write,
\* and never change the configuration mirror.
C3_TemperatureRange ==
    IsTempSetter =>
        /\ config = call.before
        /\ (call.arg < -55 * 8 \/ call.arg > 125 * 8)
              => call.outcome = "invalid" /\ call.bus = <<>>
        /\ call.arg \in {-55 * 8, 125 * 8}
              => /\ call.outcome # "invalid"
                 /\ Len(call.bus) = 1
                 /\ call.bus[1].kind = "write"

\* C3 witness: set_hysteresis_temperature(125.5) was refused on an instance
\* whose mirror is not the default byte.
C3_Witness ==
    /\ call.op = "set_hysteresis_temperature"
    /\ call.arg = 1004
    /\ call.outcome = "invalid"
    /\ config # DefaultConfig

\* the two-bit fault-queue pattern of each depth
FaultQueuePattern(fq) == CASE fq = 1 -> 0 [] fq = 2 -> 1 [] fq = 4 -> 2 [] fq = 6 -> 3

\* C4: each configuration setter issues one write [0x01, b] where b differs
\* from the mirror only inside the setter's own field, which holds the
\* selected value: bits 3-4 are 00/01/10/11 for depths 1/2/4/6, bit 2 is
\* the polarity, bit 1 the mode, bit 0 is 0 for enable and 1 for disable;
\* a successful write makes b the mirror.
C4_SettersTouchOnlyTheirField ==
    call.op \in ConfigOps =>
        /\ Len(call.bus) = 1
        /\ call.bus[1].kind = "write"
        /\ Len(Frame) = 2
        /\ Frame[1] = CONFIGURATION
        /\ call.outcome = "ok" => config = Frame[2]
        /\ LET b == Frame[2]
               c == call.before
           IN  CASE call.op = "set_fault_queue" ->
                       /\ (b \div 8) % 4 = FaultQueuePattern(call.arg)
                       /\ b % 8 = c % 8
                       /\ b \div 32 = c \div 32
                 [] call.op = "set_os_polarity" ->
                       /\ Bit(b, 2) = call.arg
                       /\ b % 4 = c % 4
                       /\ b \div 8 = c \div 8
                 [] call.op = "set_os_mode" ->
                       /\ Bit(b, 1) = call.arg
                       /\ b % 2 = c % 2
                       /\ b \div 4 = c \div 4
                 [] call.op = "enable" ->
                       /\ Bit(b, 0) = 0
                       /\ b \div 2 = c \div 2
                 [] call.op = "disable" ->
                       /\ Bit(b, 0) = 1
                       /\ b \div 2 = c \div 2

\* C4 witness: set_fault_queue(4) succeeded on the mirror 0b0_1111 and left
\* 0b1_0111.
C4_Witness ==
    /\ call.op = "set_fault_queue"
    /\ call.arg = 4
    /\ call.before = 15
    /\ call.outcome = "ok"
    /\ config = 23

\* the current call is a successful enable / disable that directly follows
\* a successful call of the other one
ShutdownPair ==
    /\ call.op \in {"enable", "disable"}
    /\ call.outcome = "ok"
    /\ last.op \in {"enable", "disable"}
    /\ last.op # call.op

\* C5 (as claimed): enable followed by disable, or disable followed by
\* enable, restores the shutdown bit to the value it had before the pair,
\* and no other bit changes at any step.
C5_PairRestoresShutdownBit ==
    ShutdownPair =>
        /\ Bit(config, 0) = Bit(last.before, 0)
        /\ last.after \div 2 = last.before \div 2
        /\ config \div 2 = last.after \div 2

\* C5 (amended): after enable followed by disable the shutdown bit is 1,
\* after disable followed by enable it is 0 (the bit is the one the second
\* call sets, so the pair restores the prior value exactly when the prior
\* value was already that one), and no other bit changes at any step.
C5_PairEndsAtSecondCall ==
    ShutdownPair =>
        /\ last.after = call.before
        /\ Bit(last.after, 0) = (IF last.op = "disable" THEN 1 ELSE 0)
        /\ Bit(config, 0) = (IF call.op = "disable" THEN 1 ELSE 0)
        /\ (Bit(config, 0) = Bit(last.before, 0))
              <=> (Bit(last.before, 0) = (IF call.op = "disable" THEN 1 ELSE 0))
        /\ last.after \div 2 = last.before \div 2
        /\ config \div 2 = last.after \div 2

\* C5 witness: disable then enable, both successful, on an enabled sensor
\* with other flags set: the pair restored the shutdown bit there.
C5_Witness ==
    /\ ShutdownPair
    /\ call.op = "enable"
    /\ Bit(last.before, 0) = 0
    /\ last.before \div 2 # 0
    /\ config = last.before

\* the step, in eighths of a degree, that a variant resolves
ResolutionStep(variant) == IF variant = "Lm75" THEN 4 ELSE 1

\* C6: for every temperature in [-55.0, 125.0] that is a multiple of the
\* variant's resolution step, decoding with the variant's mask the two data
\* bytes a threshold setter puts on the bus yields that temperature.
C6_TemperatureRoundTrip ==
    (IsTempSetter /\ call.bus # <<>> /\ call.arg % ResolutionStep(ic) = 0) =>
        /\ Len(Frame) = 3
        /\ convert_temp_from_register(Frame[2], Frame[3],
                                      get_resolution_mask(ic)) = call.arg

\* C6 witness: -24.5 was written on the base variant, -24.375 or -0.125 on
\* the extended one.
C6_Witness ==
    /\ IsTempSetter
    /\ call.outcome = "ok"
    /\ \/ ic = "Lm75" /\ call.arg = -196
       \/ ic = "Pct2075" /\ call.arg = -1

C8_ThresholdFrame ==
    (IsTempSetter /\ ic = "Lm75" /\ call.outcome # "invalid") =>
        /\ Len(call.bus) = 1
        /\ call.bus[1].kind = "write"
        /\ Len(Frame) = 3
        /\ Frame[1] = (IF call.op = "set_os_temperature" THEN 3 ELSE 2)
        /\ Frame[2] \in Bytes
        /\ AsI8(Frame[2]) * 8 <= call.arg
        /\ call.arg < AsI8(Frame[2]) * 8 + 8
        /\ Frame[3] = (IF call.arg - AsI8(Frame[2]) * 8 >= 4 THEN 128 ELSE 0)
        /\ call.arg = -440 => Frame[2] = 201 /\ Frame[3] = 0
        /\ call.arg = 1000 => Frame[2] = 125 /\ Frame[3] = 0
        /\ call.arg = 4 => Frame[2] = 0 /\ Frame[3] = 128

\* C8 witness: set_hysteresis_temperature(-55.0) was written on the base
\* variant.
C8_Witness ==
    /\ call.op = "set_hysteresis_temperature"
    /\ ic = "Lm75"
    /\ call.arg = -440
    /\ call.outcome = "ok"
    /\ Frame = <<2, 201, 0>>

\* C9: for every period in {100, 200, ..., 3100} set_sample_rate issues
\* exactly one write of the two bytes [0x04, period / 100]: 100 gives
\* 0b0000_0001, 1500 gives 0b0000_1111 and 3100 gives 0b0001_1111.
C9_SampleRateFrame ==
    (call.op = "set_sample_rate" /\ call.arg \in {100 * k : k \in 1..31}) =>
        /\ ic = "Pct2075"
        /\ call.outcome # "invalid"
        /\ call.bus = <<Write(<<4, call.arg \div 100>>)>>
        /\ call.arg = 100 => Frame[2] = 1
        /\ call.arg = 1500 => Frame[2] = 15
        /\ call.arg = 3100 => Frame[2] = 31

\* C9 witness: set_sample_rate(1500) wrote [0x04, 0b0000_1111].
C9_Witness ==
    /\ call.op = "set_sample_rate"
    /\ call.arg = 1500
    /\ call.outcome = "ok"
    /\ Frame = <<4, 15>>

\* C10 (as claimed): read_sample_rate does one write-then-read of register
\* 0x04 and yields (byte >> 1) * 100 for every byte the device returns,
\* never InvalidInputData.
C10_ReadShiftsByteRight ==
    call.op = "read_sample_rate" =>
        /\ call.bus = <<WriteRead(<<4>>, 1)>>
        /\ call.outcome # "invalid"
        /\ call.outcome = "ok" => call.ret = <<(call.data[1] \div 2) * 100>>

\* C10 (amended): read_sample_rate does one write-then-read of register
\* 0x04, never returns InvalidInputData, returns a value for every byte and,
\* for every byte in 0..31 (the five-bit values set_sample_rate writes),
\* yields byte * 100: the byte 0b0000_0001 reads as 100 ms.
C10_ReadScalesByte ==
    call.op = "read_sample_rate" =>
        /\ call.bus = <<WriteRead(<<4>>, 1)>>
        /\ call.outcome # "invalid"
        /\ call.outcome = "ok" =>
              /\ Len(call.ret) = 1
              /\ call.data[1] <= 31 => call.ret[1] = call.data[1] * 100

\* C10 witness: the device returned 0b0000_0001 and 100 was read.
C10_Witness ==
    /\ call.op = "read_sample_rate"
    /\ call.outcome = "ok"
    /\ call.data = <<1>>
    /\ call.ret = <<100>>

====
